---- MODULE Spec2Model ----
(***************************************************************************)
(* The task queue of task_balancer: the tasks table, the queue protocol    *)
(* of app/core/queue.py (lease_one_task, heartbeat, mark_running,          *)
(* mark_done, mark_failed), the cancel endpoint of app-fast-api/app.py,    *)
(* the janitor scripts/requeue_stale.py, the local orchestrator loop of    *)
(* app/orchestrator/run.py and the callback ingest of app/api/server.py.   *)
(*                                                                         *)
(* Time is the database clock now(), counted in whole abstract units.      *)
(* A SQL NULL is Null for numbers and timestamps and NullStr for text.     *)
(***************************************************************************)
EXTENDS Integers, FiniteSets, Sequences, TLC

VARIABLES
    tasks,   \* the tasks table: task id -> row
    now,     \* the database clock
    pc,      \* per process: its position
    call,    \* per process: the lease_one statement in flight (arguments, locked candidate)
    task,    \* per process: the Task object its last lease_one returned
    last,    \* the last protocol call that completed, and how many rows it updated
    q2l,     \* per task: how many queued -> leased transitions it has undergone
    canceled, \* the tasks a cancel call has moved to canceled
    jobs,    \* the <<task id, leased_by>> of the jobs submitted to slurm
    state,   \* per slurm orchestrator: the job state its last poll observed
    finished_seen_at, \* per slurm orchestrator: when it first saw the job FINISHED
    mode,    \* per orchestrator: its --mode
    idle_start \* per orchestrator: when its streak of empty polls began

vars == <<tasks, now, pc, call, task, last, q2l, canceled, jobs, state, finished_seen_at,
          mode, idle_start>>

----------------------------------------------------------------------------
\* Bounds of the model.

MaxTime == 2              \* the clock stops advancing here
LeaseSeconds == 1         \* the lease_seconds every caller passes, in clock units
RunningStaleSeconds == 1  \* the janitor's --running-stale-seconds, in clock units

----------------------------------------------------------------------------
\* Values.

Null == -1
NullStr == "null"
NoTask == "none"

\* leased_at and started_at are written (now()) and never read by any statement:
\* the model keeps whether they are NULL or stamped.
Stamped == 0

TaskIds == DOMAIN tasks
Procs == {"O1", "O2"}

Terminal == {"done", "failed", "canceled"}

LeaseSecs == {LeaseSeconds}
StaleSecs == {RunningStaleSeconds}
Backends == {"local"}
Errors == {"boom"}
Results == {"r1"}
MetaKeys == {"stage", "squeue_state"}
MetaExecuting == [k \in MetaKeys |-> IF k = "stage" THEN "executing" ELSE NullStr]
Metas == {MetaExecuting}
EmptyDoc == [k \in MetaKeys |-> NullStr]

\* A row as INSERTed by a producer: queued, attempts 0, no lease metadata.
NewRow(task_type, priority, max_attempts, target_backend, created_at) ==
    [ task_type         |-> task_type,
      status            |-> "queued",
      priority          |-> priority,
      attempts          |-> 0,
      max_attempts      |-> max_attempts,
      target_backend    |-> target_backend,
      created_at        |-> created_at,
      leased_by         |-> NullStr,
      leased_at         |-> Null,
      lease_expires_at  |-> Null,
      last_heartbeat_at |-> Null,
      backend           |-> NullStr,
      backend_job_id    |-> NullStr,
      started_at        |-> Null,
      finished_at       |-> Null,
      exit_code         |-> Null,
      error             |-> NullStr,
      result            |-> NullStr,
      worker_meta_null  |-> TRUE,
      worker_meta       |-> EmptyDoc ]

----------------------------------------------------------------------------
\* lease_one_task: LEASE_SQL.

\* Eligible without the re-lease of an expired lease: status = 'queued' alone.
EligibleQueuedOnly(r, target_backend, at) ==
    /\ r.status = "queued"
    /\ r.attempts < r.max_attempts
    /\ \/ (target_backend # NullStr /\ r.target_backend # NullStr
            /\ r.target_backend = target_backend)
       \/ (target_backend = NullStr /\ r.target_backend = NullStr)

\* Eligible without the target_backend condition of the WHERE clause.
EligibleAnyTarget(r, target_backend, at) ==
    /\ \/ r.status = "queued"
       \/ (r.status = "leased" /\ r.lease_expires_at # Null /\ r.lease_expires_at < at)
    /\ r.attempts < r.max_attempts
    /\ r.status # "canceled"

\* The WHERE clause of the candidate CTE, for a statement whose now() is at.
Eligible(r, target_backend, at) ==
    /\ \/ r.status = "queued"
       \/ (r.status = "leased" /\ r.lease_expires_at # Null /\ r.lease_expires_at < at)
    /\ r.attempts < r.max_attempts
    /\ r.status # "canceled"
    /\ \/ (target_backend # NullStr /\ r.target_backend # NullStr
            /\ r.target_backend = target_backend)
       \/ (target_backend = NullStr /\ r.target_backend = NullStr)

\* Locked without FOR UPDATE: the candidate scan takes no row lock.
LockedNever(t) == FALSE

\* FOR UPDATE: the rows some lease_one statement in flight holds locked.
Locked(t) == \E p \in Procs : pc[p] = "leasing" /\ call[p].cand = t

\* Before with the tie broken the wrong way: created_at DESC.
BeforeNewestFirst(r1, r2) ==
    \/ r1.priority > r2.priority
    \/ (r1.priority = r2.priority /\ r1.created_at > r2.created_at)

\* ORDER BY priority DESC, created_at ASC.
Before(r1, r2) ==
    \/ r1.priority > r2.priority
    \/ (r1.priority = r2.priority /\ r1.created_at < r2.created_at)

\* SKIP LOCKED LIMIT 1: the rows the candidate CTE may return (more than one
\* only when priority and created_at both tie).
Candidates(target_backend, at) ==
    LET ok == { t \in TaskIds : Eligible(tasks[t], target_backend, at) /\ ~Locked(t) }
    IN  { t \in ok : \A u \in ok : ~Before(tasks[u], tasks[t]) }

\* LeaseRow billing every lease: attempts = attempts + 1 without the CASE.
LeaseRowBillsAlways(r, leased_by, lease_seconds, at) ==
    [ r EXCEPT !.status = "leased",
               !.leased_by = leased_by,
               !.leased_at = Stamped,
               !.last_heartbeat_at = at,
               !.lease_expires_at = at + lease_seconds,
               !.attempts = r.attempts + 1 ]

\* The SET clause of LEASE_SQL.
LeaseRow(r, leased_by, lease_seconds, at) ==
    [ r EXCEPT !.status = "leased",
               !.leased_by = leased_by,
               !.leased_at = Stamped,
               !.last_heartbeat_at = at,
               !.lease_expires_at = at + lease_seconds,
               !.attempts = IF r.status = "queued" THEN r.attempts + 1 ELSE r.attempts ]

\* The Task object lease_one_task builds from the RETURNING row.
TaskOf(t, r) ==
    [ id |-> t, task_type |-> r.task_type, attempts |-> r.attempts,
      max_attempts |-> r.max_attempts ]

NoTaskObj == [ id |-> NoTask, task_type |-> NullStr, attempts |-> 0, max_attempts |-> 0 ]

NoCall ==
    [ cand |-> NoTask, leased_by |-> NullStr, lease_seconds |-> 0,
      target_backend |-> NullStr, at |-> 0 ]

----------------------------------------------------------------------------
\* heartbeat, mark_running, mark_done, mark_failed: one UPDATE each.

\* Merge storing the new document in place of the old one.
MergeOverwrite(doc, meta) == meta

\* jsonb || jsonb: the keys of meta replace those of the stored document.
Merge(doc, meta) == [k \in MetaKeys |-> IF meta[k] # NullStr THEN meta[k] ELSE doc[k]]

HeartbeatMatches(r, leased_by) ==
    r.leased_by # NullStr /\ r.leased_by = leased_by /\ r.status \in {"leased", "running"}

\* HeartbeatRow without last_heartbeat_at = now().
HeartbeatRowKeepsStamp(r, leased_by, lease_seconds, meta, at) ==
    IF HeartbeatMatches(r, leased_by)
    THEN [ r EXCEPT !.lease_expires_at = at + lease_seconds,
                    !.worker_meta_null = FALSE,
                    !.worker_meta = Merge(r.worker_meta, meta) ]
    ELSE r

HeartbeatRow(r, leased_by, lease_seconds, meta, at) ==
    IF HeartbeatMatches(r, leased_by)
    THEN [ r EXCEPT !.lease_expires_at = at + lease_seconds,
                    !.last_heartbeat_at = at,
                    !.worker_meta_null = FALSE,
                    !.worker_meta = Merge(r.worker_meta, meta) ]
    ELSE r

\* MarkRunningMatches without AND status = 'leased'.
MarkRunningMatchesAnyStatus(r, leased_by) ==
    r.leased_by # NullStr /\ r.leased_by = leased_by

MarkRunningMatches(r, leased_by) ==
    r.leased_by # NullStr /\ r.leased_by = leased_by /\ r.status = "leased"

MarkRunningRow(r, leased_by, backend, backend_job_id, at) ==
    IF MarkRunningMatches(r, leased_by)
    THEN [ r EXCEPT !.status = "running",
                    !.backend = backend,
                    !.backend_job_id = backend_job_id,
                    !.started_at = IF r.started_at # Null THEN r.started_at ELSE Stamped,
                    !.last_heartbeat_at = at ]
    ELSE r

\* MarkDoneMatches without the leased_by condition: WHERE id = %s::uuid alone.
MarkDoneMatchesAnyone(r, leased_by) == TRUE

MarkDoneMatches(r, leased_by) ==
    r.leased_by # NullStr /\ r.leased_by = leased_by

\* MarkDoneRow without lease_expires_at = NULL and exit_code = 0.
MarkDoneRowKeepsExpiry(r, leased_by, result, at) ==
    IF r.leased_by # NullStr /\ r.leased_by = leased_by
    THEN [ r EXCEPT !.status = "done",
                    !.result = result,
                    !.error = NullStr,
                    !.finished_at = at ]
    ELSE r

\* MarkDoneRow without error = NULL.
MarkDoneRowKeepsError(r, leased_by, result, at) ==
    IF r.leased_by # NullStr /\ r.leased_by = leased_by
    THEN [ r EXCEPT !.status = "done",
                    !.result = result,
                    !.finished_at = at,
                    !.exit_code = 0,
                    !.lease_expires_at = Null ]
    ELSE r

MarkDoneRow(r, leased_by, result, at) ==
    IF MarkDoneMatches(r, leased_by)
    THEN [ r EXCEPT !.status = "done",
                    !.result = result,
                    !.error = NullStr,
                    !.finished_at = at,
                    !.exit_code = 0,
                    !.lease_expires_at = Null ]
    ELSE r

\* MarkFailedMatches without AND status <> 'canceled'.
MarkFailedMatchesCanceled(r, leased_by) ==
    r.leased_by # NullStr /\ r.leased_by = leased_by

MarkFailedMatches(r, leased_by) ==
    r.leased_by # NullStr /\ r.leased_by = leased_by /\ r.status # "canceled"

\* MarkFailedRow without the two CASE expressions that clear the lease on a retry.
MarkFailedRowKeepsLease(r, leased_by, error, retry, at) ==
    LET new_status == IF retry THEN "queued" ELSE "failed"
    IN  IF MarkFailedMatches(r, leased_by)
        THEN [ r EXCEPT !.status = new_status,
                        !.error = error,
                        !.finished_at = IF new_status = "failed" THEN at ELSE r.finished_at,
                        !.exit_code = IF new_status = "failed" THEN 1 ELSE r.exit_code ]
        ELSE r

MarkFailedRow(r, leased_by, error, retry, at) ==
    LET new_status == IF retry THEN "queued" ELSE "failed"
    IN  IF MarkFailedMatches(r, leased_by)
        THEN [ r EXCEPT !.status = new_status,
                        !.error = error,
                        !.finished_at = IF new_status = "failed" THEN at ELSE r.finished_at,
                        !.exit_code = IF new_status = "failed" THEN 1 ELSE r.exit_code,
                        !.leased_by = IF new_status = "queued" THEN NullStr ELSE r.leased_by,
                        !.lease_expires_at =
                            IF new_status = "queued" THEN Null ELSE r.lease_expires_at ]
        ELSE r

----------------------------------------------------------------------------
\* cancel_task (app-fast-api/app.py) and requeue_stale.py.

\* CancelMatches without the status condition: WHERE id = %s alone.
CancelMatchesAny(r) == TRUE

CancelMatches(r) == r.status \notin {"done", "failed", "canceled"}

CancelRow(r) == IF CancelMatches(r) THEN [ r EXCEPT !.status = "canceled" ] ELSE r

\* The row was updated and is returned (200); otherwise the task exists and is
\* already finished or canceled (409).
CancelCode(r) == IF CancelMatches(r) THEN 200 ELSE 409

RequeueLeasedMatches(r, at) ==
    r.status = "leased" /\ r.lease_expires_at # Null /\ r.lease_expires_at < at

\* RequeueLeasedRow without status = 'queued' in its SET clause.
RequeueLeasedRowKeepsStatus(r, at) ==
    IF RequeueLeasedMatches(r, at)
    THEN [ r EXCEPT !.leased_by = NullStr,
                    !.leased_at = Null,
                    !.lease_expires_at = Null,
                    !.last_heartbeat_at = Null ]
    ELSE r

\* RequeueLeasedRow giving the attempt back: attempts = attempts - 1.
RequeueLeasedRowRefunds(r, at) ==
    IF RequeueLeasedMatches(r, at)
    THEN [ r EXCEPT !.status = "queued",
                    !.leased_by = NullStr,
                    !.leased_at = Null,
                    !.lease_expires_at = Null,
                    !.last_heartbeat_at = Null,
                    !.attempts = r.attempts - 1 ]
    ELSE r

RequeueLeasedRow(r, at) ==
    IF RequeueLeasedMatches(r, at)
    THEN [ r EXCEPT !.status = "queued",
                    !.leased_by = NullStr,
                    !.leased_at = Null,
                    !.lease_expires_at = Null,
                    !.last_heartbeat_at = Null ]
    ELSE r

RequeueRunningMatches(r, running_stale_seconds, at) ==
    /\ r.status = "running"
    /\ r.last_heartbeat_at # Null
    /\ r.last_heartbeat_at < at - running_stale_seconds

\* RequeueRunningRow without backend, backend_job_id and started_at in its SET clause.
RequeueRunningRowKeepsBackend(r, running_stale_seconds, at) ==
    IF RequeueRunningMatches(r, running_stale_seconds, at)
    THEN [ r EXCEPT !.status = "queued",
                    !.leased_by = NullStr,
                    !.leased_at = Null,
                    !.lease_expires_at = Null,
                    !.last_heartbeat_at = Null ]
    ELSE r

\* RequeueRunningRow without leased_by = NULL.
RequeueRunningRowKeepsHolder(r, running_stale_seconds, at) ==
    IF RequeueRunningMatches(r, running_stale_seconds, at)
    THEN [ r EXCEPT !.status = "queued",
                    !.leased_at = Null,
                    !.lease_expires_at = Null,
                    !.last_heartbeat_at = Null,
                    !.backend = NullStr,
                    !.backend_job_id = NullStr,
                    !.started_at = Null ]
    ELSE r

RequeueRunningRow(r, running_stale_seconds, at) ==
    IF RequeueRunningMatches(r, running_stale_seconds, at)
    THEN [ r EXCEPT !.status = "queued",
                    !.leased_by = NullStr,
                    !.leased_at = Null,
                    !.lease_expires_at = Null,
                    !.last_heartbeat_at = Null,
                    !.backend = NullStr,
                    !.backend_job_id = NullStr,
                    !.started_at = Null ]
    ELSE r

\* main() with --yes: REQUEUE_LEASED_SQL, then REQUEUE_RUNNING_SQL, one commit.
RequeueStaleRow(r, running_stale_seconds, at) ==
    RequeueRunningRow(RequeueLeasedRow(r, at), running_stale_seconds, at)

----------------------------------------------------------------------------
\* The record of the last completed call: its name and arguments, the status the
\* addressed row had before it, and how many rows it changed.

\* code is the HTTP status an endpoint answered, 0 for a direct call; auth is
\* FALSE when the call was an HTTP request that did not carry a correct signature;
\* answer is the "status" of the JSON document an endpoint answered, if any.
Reply(op, by, id, retry, from, n, code, auth) ==
    [ op |-> op, by |-> by, id |-> id, retry |-> retry, from |-> from, n |-> n,
      code |-> code, auth |-> auth, answer |-> NullStr ]

Done(op, by, id, retry, from, n) == Reply(op, by, id, retry, from, n, 0, TRUE)

NoOp == Done("none", NullStr, NoTask, FALSE, NullStr, 0)

\* 1 when the UPDATE changed the row's status from queued to leased.
QueuedToLeased(r, r2) == IF r.status = "queued" /\ r2.status = "leased" THEN 1 ELSE 0

----------------------------------------------------------------------------
\* Initial state: one queued row for the local pool.

InitRows == [ t \in {"A"} |-> NewRow("demo_sleep", 1, 2, "local", 0) ]

InitRest ==
    /\ now = 0
    /\ pc = [p \in Procs |-> "idle"]
    /\ call = [p \in Procs |-> NoCall]
    /\ task = [p \in Procs |-> NoTaskObj]
    /\ last = NoOp
    /\ q2l = [t \in DOMAIN tasks |-> 0]
    /\ canceled = {}
    /\ jobs = {}
    /\ state = [p \in Procs |-> NullStr]
    /\ finished_seen_at = [p \in Procs |-> Null]
    /\ mode = [p \in Procs |-> "real"]
    /\ idle_start = [p \in Procs |-> Null]

Init == tasks = InitRows /\ InitRest

----------------------------------------------------------------------------
\* The protocol, called by any process with any arguments.

\* lease_one_task up to the row lock: the candidate CTE has run.
LeaseSelect(p, lease_seconds, target_backend) ==
    /\ pc[p] = "idle"
    /\ \E t \in (IF Candidates(target_backend, now) = {}
                  THEN {NoTask} ELSE Candidates(target_backend, now)) :
            call' = [call EXCEPT ![p] =
                        [ cand |-> t, leased_by |-> p, lease_seconds |-> lease_seconds,
                          target_backend |-> target_backend, at |-> now ]]
    /\ pc' = [pc EXCEPT ![p] = "leasing"]
    /\ UNCHANGED <<tasks, now, task, last, q2l, canceled, jobs, state, finished_seen_at, mode, idle_start>>

\* The UPDATE, RETURNING, commit: the effect of the statement on the table.
LeaseApply(p) ==
    LET c == call[p]
    IN  IF c.cand = NoTask
        THEN /\ UNCHANGED <<tasks, q2l>>
             /\ last' = Done("lease_one", p, NoTask, FALSE, NullStr, 0)
        ELSE LET r2 == LeaseRow(tasks[c.cand], c.leased_by, c.lease_seconds, c.at)
             IN  /\ tasks' = [tasks EXCEPT ![c.cand] = r2]
                 /\ q2l' = [q2l EXCEPT ![c.cand] = @ + QueuedToLeased(tasks[c.cand], r2)]
                 /\ last' = Done("lease_one", p, c.cand, FALSE, tasks[c.cand].status, 1)

LeaseCommit(p) ==
    /\ pc[p] = "leasing"
    /\ LeaseApply(p)
    /\ pc' = [pc EXCEPT ![p] = "idle"]
    /\ call' = [call EXCEPT ![p] = NoCall]
    /\ UNCHANGED <<now, task, canceled, jobs, state, finished_seen_at, mode, idle_start>>

\* lease_one_task commits and returns None or the Task to its caller, which
\* goes on at pc_none or pc_task.
LeaseReturn(p, pc_none, pc_task) ==
    /\ pc[p] = "leasing"
    /\ LeaseApply(p)
    /\ task' = [task EXCEPT ![p] =
                    IF call[p].cand = NoTask THEN NoTaskObj
                    ELSE TaskOf(call[p].cand, tasks'[call[p].cand])]
    /\ pc' = [pc EXCEPT ![p] = IF call[p].cand = NoTask THEN pc_none ELSE pc_task]
    /\ call' = [call EXCEPT ![p] = NoCall]
    /\ UNCHANGED <<now, canceled, jobs, state, finished_seen_at, mode, idle_start>>

\* An UPDATE of one row waits for the row lock of a lease_one in flight.
Update(op, by, t, retry, r2) ==
    /\ ~Locked(t)
    /\ tasks' = [tasks EXCEPT ![t] = r2]
    /\ last' = Done(op, by, t, retry, tasks[t].status, IF r2 = tasks[t] THEN 0 ELSE 1)
    /\ q2l' = [q2l EXCEPT ![t] = @ + QueuedToLeased(tasks[t], r2)]

Heartbeat(p, t, lease_seconds, meta) ==
    /\ pc[p] = "idle"
    /\ Update("heartbeat", p, t, FALSE, HeartbeatRow(tasks[t], p, lease_seconds, meta, now))
    /\ UNCHANGED <<now, pc, call, task, canceled, jobs, state, finished_seen_at, mode, idle_start>>

MarkRunning(p, t, backend) ==
    /\ pc[p] = "idle"
    /\ Update("mark_running", p, t, FALSE, MarkRunningRow(tasks[t], p, backend, "", now))
    /\ UNCHANGED <<now, pc, call, task, canceled, jobs, state, finished_seen_at, mode, idle_start>>

MarkDone(p, t, result) ==
    /\ pc[p] = "idle"
    /\ Update("mark_done", p, t, FALSE, MarkDoneRow(tasks[t], p, result, now))
    /\ UNCHANGED <<now, pc, call, task, canceled, jobs, state, finished_seen_at, mode, idle_start>>

MarkFailed(p, t, error, retry) ==
    /\ pc[p] = "idle"
    /\ Update("mark_failed", p, t, retry, MarkFailedRow(tasks[t], p, error, retry, now))
    /\ UNCHANGED <<now, pc, call, task, canceled, jobs, state, finished_seen_at, mode, idle_start>>

Cancel(t) ==
    /\ ~Locked(t)
    /\ tasks' = [tasks EXCEPT ![t] = CancelRow(@)]
    /\ last' = Reply("cancel", NullStr, t, FALSE, tasks[t].status,
                     IF CancelRow(tasks[t]) = tasks[t] THEN 0 ELSE 1,
                     CancelCode(tasks[t]), TRUE)
    /\ canceled' = IF CancelMatches(tasks[t]) THEN canceled \cup {t} ELSE canceled
    /\ UNCHANGED <<now, pc, call, task, q2l, jobs, state, finished_seen_at, mode, idle_start>>

RequeueStale(running_stale_seconds) ==
    /\ \A t \in TaskIds : ~Locked(t)
    /\ tasks' = [t \in TaskIds |-> RequeueStaleRow(tasks[t], running_stale_seconds, now)]
    /\ last' = Done("requeue_stale", NullStr, NoTask, FALSE, NullStr,
                    Cardinality({t \in TaskIds : tasks'[t] # tasks[t]}))
    /\ q2l' = [t \in TaskIds |-> q2l[t] + QueuedToLeased(tasks[t], tasks'[t])]
    /\ UNCHANGED <<now, pc, call, task, canceled, jobs, state, finished_seen_at, mode, idle_start>>

Tick ==
    /\ now < MaxTime
    /\ now' = now + 1
    /\ last' = NoOp
    /\ UNCHANGED <<tasks, pc, call, task, q2l, canceled, jobs, state, finished_seen_at, mode, idle_start>>

Next ==
    \/ \E p \in Procs, ls \in LeaseSecs, tb \in Backends : LeaseSelect(p, ls, tb)
    \/ \E p \in Procs : LeaseCommit(p)
    \/ \E p \in Procs, t \in TaskIds, ls \in LeaseSecs, m \in Metas : Heartbeat(p, t, ls, m)
    \/ \E p \in Procs, t \in TaskIds, b \in Backends : MarkRunning(p, t, b)
    \/ \E p \in Procs, t \in TaskIds, r \in Results : MarkDone(p, t, r)
    \/ \E p \in Procs, t \in TaskIds, e \in Errors, retry \in BOOLEAN :
            MarkFailed(p, t, e, retry)
    \/ \E t \in TaskIds : Cancel(t)
    \/ \E s \in StaleSecs : RequeueStale(s)
    \/ Tick

Spec == Init /\ [][Next]_vars

----------------------------------------------------------------------------
\* lease_one_task as a function of the table: the table is drawn from rows in
\* the states the protocol leaves them in, and callers lease with either lease
\* length and either target_backend.

LeaseSecsWide == {LeaseSeconds, LeaseSeconds + 1}
Priorities == {1, 2}
CreatedAts == {0, 1}

MaxAttempts == {1, 2}

\* The pools a row may target and a caller may ask for; NullStr is no pool.
LeaseTargets == {"local", "slurm", NullStr}

\* The states the protocol leaves a row in: fresh; leased by O1 at time 0;
\* running; canceled while queued; released by mark_failed(retry=true); done; failed.
RowStates(priority, max_attempts, target_backend, created_at) ==
    LET fresh == NewRow("demo_sleep", priority, max_attempts, target_backend, created_at)
        leased == LeaseRow(fresh, "O1", LeaseSeconds, 0)
        running == MarkRunningRow(leased, "O1", "local", "", 0)
    IN  { fresh,
          leased,
          running,
          CancelRow(fresh),
          MarkFailedRow(leased, "O1", "boom", TRUE, 0),
          MarkDoneRow(running, "O1", "r1", 0),
          MarkFailedRow(running, "O1", "boom", FALSE, 0) }

Rows ==
    UNION { RowStates(pr, m, tb, c) :
                pr \in Priorities, m \in MaxAttempts, tb \in LeaseTargets,
                c \in CreatedAts }

\* Row A is a local task of priority 2 created at time 1; row B is any row.
InitLease ==
    /\ \E a \in RowStates(2, 2, "local", 1), b \in Rows :
            tasks = [t \in {"A", "B"} |-> IF t = "A" THEN a ELSE b]
    /\ now = 1
    /\ pc = [p \in Procs |-> "idle"]
    /\ call = [p \in Procs |-> NoCall]
    /\ task = [p \in Procs |-> NoTaskObj]
    /\ last = NoOp
    /\ q2l = [t \in DOMAIN tasks |-> tasks[t].attempts]
    /\ canceled = { t \in DOMAIN tasks : tasks[t].status = "canceled" }
    /\ jobs = {}
    /\ state = [p \in Procs |-> NullStr]
    /\ finished_seen_at = [p \in Procs |-> Null]
    /\ mode = [p \in Procs |-> "real"]
    /\ idle_start = [p \in Procs |-> Null]

\* Each caller calls lease_one_task once.
LeaseOnce(p) == LeaseReturn(p, "returned", "returned")

NextLease ==
    \/ \E p \in Procs, ls \in LeaseSecsWide, tb \in LeaseTargets : LeaseSelect(p, ls, tb)
    \/ \E p \in Procs : LeaseOnce(p)
    \/ Tick

SpecLease == InitLease /\ [][NextLease]_vars

----------------------------------------------------------------------------
\* heartbeat as a function of the row: the row is drawn from the states the
\* protocol leaves a row in, with worker_meta NULL or one of the documents, and
\* callers heartbeat with either lease length and any of the documents.

\* slurm_run.py's waiting document; EmptyDoc is meta=None, sent as {}.
MetaWaiting == [k \in MetaKeys |-> IF k = "stage" THEN "waiting" ELSE "RUNNING"]
MetasWide == {EmptyDoc, MetaExecuting, MetaWaiting}

HeartbeatRows ==
    LET states == RowStates(1, 2, "local", 0)
        rows == states \cup { CancelRow(r) : r \in states }
    IN  rows \cup { [r EXCEPT !.worker_meta_null = FALSE, !.worker_meta = d] :
                        r \in rows, d \in MetasWide }

InitHeartbeat ==
    /\ \E r \in HeartbeatRows : tasks = [t \in {"A"} |-> r]
    /\ now = 1
    /\ pc = [p \in Procs |-> "idle"]
    /\ call = [p \in Procs |-> NoCall]
    /\ task = [p \in Procs |-> NoTaskObj]
    /\ last = NoOp
    /\ q2l = [t \in DOMAIN tasks |-> tasks[t].attempts]
    /\ canceled = { t \in DOMAIN tasks : tasks[t].status = "canceled" }
    /\ jobs = {}
    /\ state = [p \in Procs |-> NullStr]
    /\ finished_seen_at = [p \in Procs |-> Null]
    /\ mode = [p \in Procs |-> "real"]
    /\ idle_start = [p \in Procs |-> Null]

NextHeartbeat ==
    \/ \E p \in Procs, t \in TaskIds, ls \in LeaseSecsWide, m \in MetasWide :
            Heartbeat(p, t, ls, m)
    \/ Tick

SpecHeartbeat == InitHeartbeat /\ [][NextHeartbeat]_vars

----------------------------------------------------------------------------
\* requeue_stale.py --yes as a function of the table: two rows drawn from the
\* states the protocol leaves a row in, the janitor run with either threshold
\* as the clock advances.

StaleSecsWide == {RunningStaleSeconds, RunningStaleSeconds + 1}

JanitorRows ==
    LET states == RowStates(1, 2, "local", 0)
    IN  states \cup { CancelRow(r) : r \in states }

InitJanitor ==
    /\ \E a \in JanitorRows, b \in JanitorRows :
            tasks = [t \in {"A", "B"} |-> IF t = "A" THEN a ELSE b]
    /\ now = 1
    /\ pc = [p \in Procs |-> "idle"]
    /\ call = [p \in Procs |-> NoCall]
    /\ task = [p \in Procs |-> NoTaskObj]
    /\ last = NoOp
    /\ q2l = [t \in DOMAIN tasks |-> tasks[t].attempts]
    /\ canceled = { t \in DOMAIN tasks : tasks[t].status = "canceled" }
    /\ jobs = {}
    /\ state = [p \in Procs |-> NullStr]
    /\ finished_seen_at = [p \in Procs |-> Null]
    /\ mode = [p \in Procs |-> "real"]
    /\ idle_start = [p \in Procs |-> Null]

NextJanitor ==
    \/ \E s \in StaleSecsWide : RequeueStale(s)
    \/ Tick

SpecJanitor == InitJanitor /\ [][NextJanitor]_vars

----------------------------------------------------------------------------
\* The local orchestrator, app/orchestrator/run.py main(): one process per
\* element of Procs, each with its own LEASED_BY; beside them the cancel
\* endpoint, the janitor and the clock. A process may stop for good anywhere.

SupportedLocal == {"demo_sleep"}

\* Retry always granted: retry = True.
RetryAlways(tk) == TRUE

\* Retry off by one: attempts <= max_attempts.
RetryOffByOne(tk) == tk.attempts <= tk.max_attempts

\* retry = (task.attempts < task.max_attempts)
Retry(tk) == tk.attempts < tk.max_attempts

OrchLease(p) == LeaseSelect(p, LeaseSeconds, "local")

\* lease_one_task returns: None -> poll again; a Task -> the try block.
OrchLeased(p) == LeaseReturn(p, "idle", "mark_running")

OrchMarkRunning(p) ==
    /\ pc[p] = "mark_running"
    /\ Update("mark_running", p, task[p].id, FALSE,
              MarkRunningRow(tasks[task[p].id], p, "local", "", now))
    /\ pc' = [pc EXCEPT ![p] = "heartbeat"]
    /\ UNCHANGED <<now, call, task, canceled, jobs, state, finished_seen_at, mode, idle_start>>

OrchHeartbeat(p) ==
    /\ pc[p] = "heartbeat"
    /\ Update("heartbeat", p, task[p].id, FALSE,
              HeartbeatRow(tasks[task[p].id], p, LeaseSeconds, MetaExecuting, now))
    /\ pc' = [pc EXCEPT ![p] = "execute"]
    /\ UNCHANGED <<now, call, task, canceled, jobs, state, finished_seen_at, mode, idle_start>>

\* execute_local: raises on an unsupported task_type or a bad payload.sleep_s,
\* otherwise sleeps and returns the result document.
OrchExecute(p, ok) ==
    /\ pc[p] = "execute"
    /\ ok => task[p].task_type \in SupportedLocal
    /\ pc' = [pc EXCEPT ![p] = IF ok THEN "mark_done" ELSE "except"]
    /\ UNCHANGED <<tasks, now, call, task, last, q2l, canceled, jobs, state, finished_seen_at, mode, idle_start>>

OrchMarkDone(p) ==
    /\ pc[p] = "mark_done"
    /\ Update("mark_done", p, task[p].id, FALSE, MarkDoneRow(tasks[task[p].id], p, "r1", now))
    /\ pc' = [pc EXCEPT ![p] = "idle"]
    /\ UNCHANGED <<now, call, task, canceled, jobs, state, finished_seen_at, mode, idle_start>>

OrchExcept(p) ==
    /\ pc[p] = "except"
    /\ Update("mark_failed", p, task[p].id, Retry(task[p]),
              MarkFailedRow(tasks[task[p].id], p, "boom", Retry(task[p]), now))
    /\ pc' = [pc EXCEPT ![p] = "idle"]
    /\ UNCHANGED <<now, call, task, canceled, jobs, state, finished_seen_at, mode, idle_start>>

\* The process is killed: an open transaction is rolled back, its lock released.
Crash(p) ==
    /\ pc[p] # "crashed"
    /\ pc' = [pc EXCEPT ![p] = "crashed"]
    /\ call' = [call EXCEPT ![p] = NoCall]
    /\ UNCHANGED <<tasks, now, task, last, q2l, canceled, jobs, state, finished_seen_at, mode, idle_start>>

NextOrch ==
    \/ \E p \in Procs : OrchLease(p)
    \/ \E p \in Procs : OrchLeased(p)
    \/ \E p \in Procs : OrchMarkRunning(p)
    \/ \E p \in Procs : OrchHeartbeat(p)
    \/ \E p \in Procs, ok \in BOOLEAN : OrchExecute(p, ok)
    \/ \E p \in Procs : OrchMarkDone(p)
    \/ \E p \in Procs : OrchExcept(p)
    \/ \E p \in Procs : Crash(p)
    \/ \E t \in TaskIds : Cancel(t)
    \/ \E s \in StaleSecs : RequeueStale(s)
    \/ Tick

SpecOrch == Init /\ [][NextOrch]_vars

----------------------------------------------------------------------------
\* One local orchestrator alone with one task: no other orchestrator, no cancel,
\* no janitor. The task has any retry budget and a supported or an unsupported
\* task_type; an execution may return or raise.

SoloBudgets == {1, 2, 3}
TaskTypes == {"demo_sleep", "other"}

InitSolo ==
    /\ \E k \in SoloBudgets, ty \in TaskTypes :
            tasks = [t \in {"A"} |-> NewRow(ty, 1, k, "local", 0)]
    /\ InitRest

NextSolo ==
    \/ OrchLease("O1")
    \/ OrchLeased("O1")
    \/ OrchMarkRunning("O1")
    \/ OrchHeartbeat("O1")
    \/ \E ok \in BOOLEAN : OrchExecute("O1", ok)
    \/ OrchMarkDone("O1")
    \/ OrchExcept("O1")
    \/ Tick

SpecSolo == InitSolo /\ [][NextSolo]_vars

\* The same with a demo_sleep task whose executions all return.
InitHappy ==
    /\ \E k \in SoloBudgets : tasks = [t \in {"A"} |-> NewRow("demo_sleep", 1, k, "local", 0)]
    /\ InitRest

NextHappy ==
    \/ OrchLease("O1")
    \/ OrchLeased("O1")
    \/ OrchMarkRunning("O1")
    \/ OrchHeartbeat("O1")
    \/ OrchExecute("O1", TRUE)
    \/ OrchMarkDone("O1")
    \/ Tick

SpecHappy == InitHappy /\ [][NextHappy]_vars

\* The same again, but a store call of the try block (mark_running, heartbeat,
\* mark_done) may raise a transient error: its transaction changes nothing and
\* control passes to the except handler, whose own store call goes through.
StoreRaises(p) ==
    /\ pc[p] \in {"mark_running", "heartbeat", "mark_done"}
    /\ pc' = [pc EXCEPT ![p] = "except"]
    /\ last' = Done("store_error", p, task[p].id, FALSE, tasks[task[p].id].status, 0)
    /\ UNCHANGED <<tasks, now, call, task, q2l, canceled, jobs, state, finished_seen_at, mode, idle_start>>

NextStore ==
    \/ OrchLease("O1")
    \/ OrchLeased("O1")
    \/ OrchMarkRunning("O1")
    \/ OrchHeartbeat("O1")
    \/ OrchExecute("O1", TRUE)
    \/ OrchMarkDone("O1")
    \/ StoreRaises("O1")
    \/ OrchExcept("O1")
    \/ Tick

SpecStore == InitHappy /\ [][NextStore]_vars

----------------------------------------------------------------------------
\* The outer loop of an orchestrator with its idle timer (run.py, slurm_run.py
\* and boinc_run.py alike): after an empty poll a demo-mode process starts the
\* timer or, when it has run for idle_exit_seconds, returns from main(); a
\* successful lease clears the timer.

IdleExitSeconds == 1

Modes == {"real", "demo"}

\* The idle period counts as over at once.
IdleElapsedAtOnce(start, at) == TRUE

\* (time.time() - idle_start) >= args.idle_exit_seconds
IdleElapsed(start, at) == at - start >= IdleExitSeconds

\* lease_one_task returns: None -> the "if not task" branch; a Task -> idle_start = None.
LoopLeased(p) == LeaseReturn(p, "no_task", "got_task")

\* if not task: ...; time.sleep(poll_seconds); continue
IdlePoll(p) ==
    /\ pc[p] = "no_task"
    /\ IF mode[p] = "demo"
       THEN IF idle_start[p] = Null
            THEN /\ idle_start' = [idle_start EXCEPT ![p] = now]
                 /\ pc' = [pc EXCEPT ![p] = "idle"]
            ELSE /\ idle_start' = idle_start
                 /\ pc' = [pc EXCEPT ![p] =
                        IF IdleElapsed(idle_start[p], now) THEN "exited" ELSE "idle"]
       ELSE /\ idle_start' = idle_start
            /\ pc' = [pc EXCEPT ![p] = "idle"]
    /\ UNCHANGED <<tasks, now, call, task, last, q2l, canceled, jobs, state, finished_seen_at, mode>>

\* idle_start = None, then the try block, which starts at pc_try.
IdleReset(p, pc_try) ==
    /\ pc[p] = "got_task"
    /\ idle_start' = [idle_start EXCEPT ![p] = Null]
    /\ pc' = [pc EXCEPT ![p] = pc_try]
    /\ UNCHANGED <<tasks, now, call, task, last, q2l, canceled, jobs, state, finished_seen_at, mode>>

\* Two local orchestrators, each in either mode, and the clock.
InitIdle ==
    /\ tasks = InitRows
    /\ now = 0
    /\ pc = [p \in Procs |-> "idle"]
    /\ call = [p \in Procs |-> NoCall]
    /\ task = [p \in Procs |-> NoTaskObj]
    /\ last = NoOp
    /\ q2l = [t \in DOMAIN tasks |-> 0]
    /\ canceled = {}
    /\ jobs = {}
    /\ state = [p \in Procs |-> NullStr]
    /\ finished_seen_at = [p \in Procs |-> Null]
    /\ mode \in [Procs -> Modes]
    /\ idle_start = [p \in Procs |-> Null]

NextIdle ==
    \/ \E p \in Procs : OrchLease(p)
    \/ \E p \in Procs : LoopLeased(p)
    \/ \E p \in Procs : IdlePoll(p)
    \/ \E p \in Procs : IdleReset(p, "mark_running")
    \/ \E p \in Procs : OrchMarkRunning(p)
    \/ \E p \in Procs : OrchHeartbeat(p)
    \/ \E p \in Procs, ok \in BOOLEAN : OrchExecute(p, ok)
    \/ \E p \in Procs : OrchMarkDone(p)
    \/ \E p \in Procs : OrchExcept(p)
    \/ Tick

SpecIdle == InitIdle /\ [][NextIdle]_vars

----------------------------------------------------------------------------
\* The boinc orchestrator, app/orchestrator/boinc_run.py main(): in demo mode it
\* hands back every task whose task_type lacks the demo prefix; of the others it
\* runs boinc_demo_sleep as a dry run, heartbeating while it sleeps.

BoincTaskTypes == {"boinc_demo_sleep", "boinc_demo_other", "boinc_real"}

\* HasDemoPrefix holding of every task_type.
HasDemoPrefixAlways(task_type) == TRUE

\* task.task_type.startswith(args.demo_prefix), the prefix being "boinc_demo_"
HasDemoPrefix(task_type) == task_type \in {"boinc_demo_sleep", "boinc_demo_other"}

MetaDryrun == [k \in MetaKeys |-> IF k = "stage" THEN "running_dryrun" ELSE NullStr]
MetaSleeping == [k \in MetaKeys |-> IF k = "stage" THEN "sleeping" ELSE NullStr]

\* One queued row for the boinc pool, of any task_type and retry budget, and one
\* orchestrator in either mode.
InitBoinc ==
    /\ \E k \in SoloBudgets, ty \in BoincTaskTypes :
            tasks = [t \in {"A"} |-> NewRow(ty, 1, k, "boinc", 0)]
    /\ now = 0
    /\ pc = [p \in Procs |-> "idle"]
    /\ call = [p \in Procs |-> NoCall]
    /\ task = [p \in Procs |-> NoTaskObj]
    /\ last = NoOp
    /\ q2l = [t \in DOMAIN tasks |-> 0]
    /\ canceled = {}
    /\ jobs = {}
    /\ state = [p \in Procs |-> NullStr]
    /\ finished_seen_at = [p \in Procs |-> Null]
    /\ mode \in [Procs -> Modes]
    /\ idle_start = [p \in Procs |-> Null]

BoincLease(p) == LeaseSelect(p, LeaseSeconds, "boinc")

\* The demo-prefix guard and the task_type check at the head of the try block.
BoincCheck(p) ==
    /\ pc[p] = "check"
    /\ pc' = [pc EXCEPT ![p] =
            IF mode[p] = "demo" /\ ~HasDemoPrefix(task[p].task_type) THEN "skip"
            ELSE IF task[p].task_type # "boinc_demo_sleep" THEN "except"
            ELSE "mark_running"]
    /\ UNCHANGED <<tasks, now, call, task, last, q2l, canceled, jobs, state, finished_seen_at,
                   mode, idle_start>>

\* mark_failed(retry=True) for a task that is not a demo task, and continue.
BoincSkip(p) ==
    /\ pc[p] = "skip"
    /\ Update("mark_failed", p, task[p].id, TRUE,
              MarkFailedRow(tasks[task[p].id], p, "not_a_demo_task", TRUE, now))
    /\ pc' = [pc EXCEPT ![p] = "idle"]
    /\ UNCHANGED <<now, call, task, canceled, jobs, state, finished_seen_at, mode, idle_start>>

BoincMarkRunning(p) ==
    /\ pc[p] = "mark_running"
    /\ Update("mark_running", p, task[p].id, FALSE,
              MarkRunningRow(tasks[task[p].id], p, "boinc", "dryrun", now))
    /\ pc' = [pc EXCEPT ![p] = "heartbeat"]
    /\ UNCHANGED <<now, call, task, canceled, jobs, state, finished_seen_at, mode, idle_start>>

BoincHeartbeat(p) ==
    /\ pc[p] = "heartbeat"
    /\ Update("heartbeat", p, task[p].id, FALSE,
              HeartbeatRow(tasks[task[p].id], p, LeaseSeconds, MetaDryrun, now))
    /\ pc' = [pc EXCEPT ![p] = "sleeping"]
    /\ UNCHANGED <<now, call, task, canceled, jobs, state, finished_seen_at, mode, idle_start>>

\* The sleep loop: a heartbeat per round, until sleep_s have passed.
BoincSleeping(p, more) ==
    /\ pc[p] = "sleeping"
    /\ IF more
       THEN /\ Update("heartbeat", p, task[p].id, FALSE,
                      HeartbeatRow(tasks[task[p].id], p, LeaseSeconds, MetaSleeping, now))
            /\ pc' = pc
       ELSE /\ pc' = [pc EXCEPT ![p] = "mark_done"]
            /\ UNCHANGED <<tasks, last, q2l>>
    /\ UNCHANGED <<now, call, task, canceled, jobs, state, finished_seen_at, mode, idle_start>>

\* mark_done with the dry-run result, then the status read that is only printed.
BoincMarkDone(p) ==
    /\ pc[p] = "mark_done"
    /\ Update("mark_done", p, task[p].id, FALSE, MarkDoneRow(tasks[task[p].id], p, "r1", now))
    /\ pc' = [pc EXCEPT ![p] = "idle"]
    /\ UNCHANGED <<now, call, task, canceled, jobs, state, finished_seen_at, mode, idle_start>>

BoincExcept(p) ==
    /\ pc[p] = "except"
    /\ Update("mark_failed", p, task[p].id, Retry(task[p]),
              MarkFailedRow(tasks[task[p].id], p, "raised", Retry(task[p]), now))
    /\ pc' = [pc EXCEPT ![p] = "idle"]
    /\ UNCHANGED <<now, call, task, canceled, jobs, state, finished_seen_at, mode, idle_start>>

NextBoinc ==
    \/ BoincLease("O1")
    \/ LoopLeased("O1")
    \/ IdlePoll("O1")
    \/ IdleReset("O1", "check")
    \/ BoincCheck("O1")
    \/ BoincSkip("O1")
    \/ BoincMarkRunning("O1")
    \/ BoincHeartbeat("O1")
    \/ \E more \in BOOLEAN : BoincSleeping("O1", more)
    \/ BoincMarkDone("O1")
    \/ BoincExcept("O1")
    \/ Tick

SpecBoinc == InitBoinc /\ [][NextBoinc]_vars

----------------------------------------------------------------------------
\* Crash recovery: orchestrator O1 may be killed once it holds a leased task,
\* before its mark_running; orchestrator O2 runs the loop with executions that
\* succeed. No janitor, no cancel.

CrashWhileLeased(p) == pc[p] = "mark_running" /\ Crash(p)

NextCrash ==
    \/ OrchLease("O1")
    \/ OrchLeased("O1")
    \/ CrashWhileLeased("O1")
    \/ OrchLease("O2")
    \/ OrchLeased("O2")
    \/ OrchMarkRunning("O2")
    \/ OrchHeartbeat("O2")
    \/ OrchExecute("O2", TRUE)
    \/ OrchMarkDone("O2")
    \/ Tick

SpecCrash == Init /\ [][NextCrash]_vars

----------------------------------------------------------------------------
\* The callback ingest, app/api/server.py: POST /v1/task-result.

\* RESULT_SECRET as the server reads it on a request; "" is unset or empty.
Secrets == {"", "s1"}
\* The keys a sender may sign with.
Keys == {"s1", "s2"}

\* The raw request body: a JSON envelope, or bytes that are not JSON.
Envelope(task_id, leased_by, ok, result, error) ==
    [ json |-> TRUE, task_id |-> task_id, leased_by |-> leased_by, ok |-> ok,
      result |-> result, error |-> error ]

JunkBody == [ json |-> FALSE, task_id |-> NoTask, leased_by |-> NullStr, ok |-> FALSE,
              result |-> NullStr, error |-> NullStr ]

\* The empty JSON object and the empty string: both false in a Python condition.
EmptyObject == "{}"
EmptyString == ""

\* Or keeping whatever was posted.
OrPosted(x, default) == x

\* x or default
Or(x, default) == IF x \in {NullStr, EmptyObject, EmptyString} THEN default ELSE x

\* A worker posts ok with a result, with an empty one or without one, or not ok
\* with an error or without one.
Bodies ==
    { Envelope(t, p, TRUE, r, NullStr) :
        t \in TaskIds, p \in Procs, r \in Results \cup {NullStr, EmptyObject} }
    \cup { Envelope(t, p, FALSE, NullStr, e) :
        t \in TaskIds, p \in Procs, e \in Errors \cup {NullStr} }
    \cup {JunkBody}

\* hmac.new(secret, body, sha256).hexdigest(): an ASCII string that determines
\* the key and the body (no collisions).
HexDigest(secret, body) == [ kind |-> "hex", key |-> secret, body |-> body ]

\* The x-task-sig header: absent (the default ""), the hex digest of some body
\* under some key, or a value holding a non-ASCII character.
NoSig == [ kind |-> "empty", key |-> "", body |-> JunkBody ]
NonAsciiSig == [ kind |-> "nonascii", key |-> "", body |-> JunkBody ]

\* The headers a sender may put on a body: none, a non-ASCII value, the digest of
\* the body under one of the keys, or the digest of another body.
SigsFor(body) ==
    {NoSig, NonAsciiSig} \cup { HexDigest(k, body) : k \in Keys }
        \cup { HexDigest(k, JunkBody) : k \in Keys }

\* hmac.compare_digest(mac, sig_hex) on str arguments raises TypeError when one
\* holds a non-ASCII character.
CompareDigestRaises(sig) == sig.kind = "nonascii"

\* verify_sig returns True.
VerifySig(body, sig, secret) == secret # "" /\ sig = HexDigest(secret, body)

\* The answer of task_result: 401 bad signature; 500 when verify_sig, json.loads
\* or the model validation raises; 200 after the store call.
TaskResultCode(body, sig, secret) ==
    IF sig.kind = "empty" \/ secret = "" THEN 401
    ELSE IF CompareDigestRaises(sig) THEN 500
    ELSE IF ~VerifySig(body, sig, secret) THEN 401
    ELSE IF ~body.json THEN 500
    ELSE 200

\* The store call of task_result on the row the envelope names.
TaskResultRow(r, body, at) ==
    IF body.ok
    THEN MarkDoneRow(r, body.leased_by, Or(body.result, "ok_true"), at)
    ELSE MarkFailedRow(r, body.leased_by, Or(body.error, "unknown error"), FALSE, at)

\* The document task_result returns after the store call.
TaskResultAnswer(body) == IF body.ok THEN "done" ELSE "failed"

\* The request carries the hex HMAC of its body under the server's secret.
CorrectSig(body, sig, secret) == secret # "" /\ sig = HexDigest(secret, body)

TaskResult(body, sig, secret) ==
    LET code == TaskResultCode(body, sig, secret)
        auth == CorrectSig(body, sig, secret)
    IN  /\ IF code = 200
           THEN /\ ~Locked(body.task_id)
                /\ tasks' = [tasks EXCEPT ![body.task_id] = TaskResultRow(@, body, now)]
                /\ last' = [ Reply("task_result", body.leased_by, body.task_id, FALSE,
                                   tasks[body.task_id].status,
                                   IF tasks'[body.task_id] = tasks[body.task_id] THEN 0 ELSE 1,
                                   code, auth)
                             EXCEPT !.answer = TaskResultAnswer(body) ]
           ELSE /\ tasks' = tasks
                /\ last' = Reply("task_result", NullStr, NoTask, FALSE, NullStr, 0, code, auth)
        /\ UNCHANGED <<now, pc, call, task, q2l, canceled, jobs, state, finished_seen_at, mode, idle_start>>

\* Orchestrators lease and mark running, detached workers post results, the
\* cancel endpoint, the janitor and the clock run beside them.
NextCallback ==
    \/ \E p \in Procs : LeaseSelect(p, LeaseSeconds, "local")
    \/ \E p \in Procs : LeaseCommit(p)
    \/ \E p \in Procs, t \in TaskIds, b \in Backends : MarkRunning(p, t, b)
    \/ \E body \in Bodies, secret \in Secrets :
            \E sig \in SigsFor(body) : TaskResult(body, sig, secret)
    \/ \E t \in TaskIds : Cancel(t)
    \/ \E s \in StaleSecs : RequeueStale(s)
    \/ Tick

SpecCallback == Init /\ [][NextCallback]_vars

\* The same with every request signed by the job script: the hex HMAC of the
\* body under the shared secret.
SignedTaskResult(body) == TaskResult(body, HexDigest("s1", body), "s1")

NextIngest ==
    \/ \E p \in Procs : LeaseSelect(p, LeaseSeconds, "local")
    \/ \E p \in Procs : LeaseCommit(p)
    \/ \E p \in Procs, t \in TaskIds, b \in Backends : MarkRunning(p, t, b)
    \/ \E body \in Bodies : SignedTaskResult(body)
    \/ \E t \in TaskIds : Cancel(t)
    \/ \E s \in StaleSecs : RequeueStale(s)
    \/ Tick

SpecIngest == Init /\ [][NextIngest]_vars

----------------------------------------------------------------------------
\* The slurm orchestrator, app/orchestrator/slurm_run.py main(): it submits a
\* job that is to post the result to the callback endpoint, then polls the row
\* and the job until the row is finalised, was requeued, or the job has been
\* gone from squeue for the grace period. Beside one such orchestrator run its
\* jobs' callbacks, the cancel endpoint, the janitor and the clock.

FinishedGraceSeconds == 1

SupportedSlurm == {"complete_latin_square_from_prefix", "search_mols"}

\* get_job_state: the squeue state, or FINISHED when squeue fails or prints nothing.
JobStates == {"RUNNING", "FINISHED"}

MetaSubmitted == [k \in MetaKeys |-> IF k = "stage" THEN "submitted" ELSE NullStr]
MetaWaitingIn(st) == [k \in MetaKeys |-> IF k = "stage" THEN "waiting" ELSE st]

\* The loop leaves on a terminal status only.
ExitsReconciliationTerminalOnly(db_status) == db_status \in {"done", "failed", "canceled"}

\* db_status in ("done", "failed", "canceled") or db_status == "queued": break
ExitsReconciliation(db_status) ==
    db_status \in {"done", "failed", "canceled"} \/ db_status = "queued"

\* The grace period counts as elapsed at once.
GraceElapsedAtOnce(seen, at) == TRUE

\* (time.time() - finished_seen_at) >= args.finished_grace_seconds
GraceElapsed(seen, at) == at - seen >= FinishedGraceSeconds

\* One queued row for the slurm pool, with two attempts.
InitSlurm ==
    /\ tasks = [t \in {"A"} |-> NewRow("search_mols", 1, 2, "slurm", 0)]
    /\ InitRest

SlurmLease(p) == LeaseSelect(p, LeaseSeconds, "slurm")

SlurmLeased(p) == LeaseReturn(p, "idle", "submit")

\* The SUPPORTED check and submit_demo_sleep: either raises, or the job is
\* submitted with the task id and LEASED_BY written into its script.
SlurmSubmit(p, ok) ==
    /\ pc[p] = "submit"
    /\ ok => task[p].task_type \in SupportedSlurm
    /\ pc' = [pc EXCEPT ![p] = IF ok THEN "mark_running" ELSE "except"]
    /\ jobs' = IF ok THEN jobs \cup {<<task[p].id, p>>} ELSE jobs
    /\ UNCHANGED <<tasks, now, call, task, last, q2l, canceled, state, finished_seen_at, mode, idle_start>>

SlurmMarkRunning(p) ==
    /\ pc[p] = "mark_running"
    /\ Update("mark_running", p, task[p].id, FALSE,
              MarkRunningRow(tasks[task[p].id], p, "slurm", "job", now))
    /\ pc' = [pc EXCEPT ![p] = "submitted"]
    /\ UNCHANGED <<now, call, task, canceled, jobs, state, finished_seen_at, mode, idle_start>>

\* The heartbeat with stage "submitted", then finished_seen_at = None.
SlurmSubmitted(p) ==
    /\ pc[p] = "submitted"
    /\ Update("heartbeat", p, task[p].id, FALSE,
              HeartbeatRow(tasks[task[p].id], p, LeaseSeconds, MetaSubmitted, now))
    /\ finished_seen_at' = [finished_seen_at EXCEPT ![p] = Null]
    /\ pc' = [pc EXCEPT ![p] = "poll"]
    /\ UNCHANGED <<now, call, task, canceled, jobs, state, mode, idle_start>>

\* The head of an iteration: _get_task_status, and the two breaks.
SlurmPoll(p) ==
    LET db_status == tasks[task[p].id].status
    IN  /\ pc[p] = "poll"
        /\ pc' = [pc EXCEPT ![p] = IF ExitsReconciliation(db_status) THEN "idle" ELSE "job_state"]
        /\ last' = Done("task_status", p, task[p].id, FALSE, db_status, 0)
        /\ UNCHANGED <<tasks, now, call, task, q2l, canceled, jobs, state, finished_seen_at, mode, idle_start>>

\* The rest of the iteration: get_job_state, the heartbeat with stage
\* "waiting", and the grace timer.
SlurmWaiting(p, st) ==
    LET seen == finished_seen_at[p]
    IN  /\ pc[p] = "job_state"
        /\ Update("heartbeat", p, task[p].id, FALSE,
                  HeartbeatRow(tasks[task[p].id], p, LeaseSeconds, MetaWaitingIn(st), now))
        /\ state' = [state EXCEPT ![p] = st]
        /\ finished_seen_at' = [finished_seen_at EXCEPT ![p] =
                IF st = "FINISHED" THEN (IF seen = Null THEN now ELSE seen) ELSE Null]
        /\ pc' = [pc EXCEPT ![p] =
                IF st = "FINISHED" /\ seen # Null /\ GraceElapsed(seen, now)
                THEN "no_callback" ELSE "poll"]
        /\ UNCHANGED <<now, call, task, canceled, jobs, mode, idle_start>>

\* mark_failed(retry=False) for the callback that never came, and break.
SlurmNoCallback(p) ==
    /\ pc[p] = "no_callback"
    /\ Update("mark_failed", p, task[p].id, FALSE,
              MarkFailedRow(tasks[task[p].id], p, "no_callback", FALSE, now))
    /\ pc' = [pc EXCEPT ![p] = "idle"]
    /\ UNCHANGED <<now, call, task, canceled, jobs, state, finished_seen_at, mode, idle_start>>

\* A store call or the squeue call of the try block raises.
SlurmRaises(p) ==
    /\ pc[p] \in {"mark_running", "submitted", "poll", "job_state"}
    /\ pc' = [pc EXCEPT ![p] = "except"]
    /\ last' = Done("store_error", p, task[p].id, FALSE, tasks[task[p].id].status, 0)
    /\ UNCHANGED <<tasks, now, call, task, q2l, canceled, jobs, state, finished_seen_at, mode, idle_start>>

SlurmExcept(p) ==
    /\ pc[p] = "except"
    /\ Update("mark_failed", p, task[p].id, Retry(task[p]),
              MarkFailedRow(tasks[task[p].id], p, "raised", Retry(task[p]), now))
    /\ pc' = [pc EXCEPT ![p] = "idle"]
    /\ UNCHANGED <<now, call, task, canceled, jobs, state, finished_seen_at, mode, idle_start>>

\* A submitted job posts its result or its error, signed with the shared secret.
SlurmCallback(t, p, ok) ==
    LET body == IF ok THEN Envelope(t, p, TRUE, "r1", NullStr)
                      ELSE Envelope(t, p, FALSE, NullStr, "boom")
    IN  /\ <<t, p>> \in jobs
        /\ TaskResult(body, HexDigest("s1", body), "s1")

NextSlurm ==
    \/ SlurmLease("O1")
    \/ SlurmLeased("O1")
    \/ \E ok \in BOOLEAN : SlurmSubmit("O1", ok)
    \/ SlurmMarkRunning("O1")
    \/ SlurmSubmitted("O1")
    \/ SlurmPoll("O1")
    \/ \E st \in JobStates : SlurmWaiting("O1", st)
    \/ SlurmNoCallback("O1")
    \/ SlurmRaises("O1")
    \/ SlurmExcept("O1")
    \/ \E t \in TaskIds, ok \in BOOLEAN : SlurmCallback(t, "O1", ok)
    \/ \E t \in TaskIds : Cancel(t)
    \/ \E s \in StaleSecs : RequeueStale(s)
    \/ Tick

SpecSlurm == InitSlurm /\ [][NextSlurm]_vars

----------------------------------------------------------------------------
\* Properties of the protocol.

\* The lease of a row is live: leased or running, lease_expires_at not passed.
LiveLease(r, at) ==
    r.status \in {"leased", "running"} /\ r.lease_expires_at # Null /\ r.lease_expires_at >= at

\* C1: no lease_one call returns a row whose lease is live, whatever the
\* interleaving of the callers' statements with each other and with the other calls.
C1_NoDoubleLease ==
    [][ \A p \in Procs :
            (pc[p] = "leasing" /\ pc'[p] = "idle" /\ call[p].cand # NoTask)
                => ~LiveLease(tasks[call[p].cand], now) ]_vars

\* O1's lease_one has returned row A while O2's lease_one, started before O1
\* committed, is in flight and has skipped the locked row.
C1_Witness ==
    /\ last.op = "lease_one" /\ last.by = "O1" /\ last.id = "A" /\ last.n = 1
    /\ pc["O2"] = "leasing" /\ call["O2"].cand = NoTask
    /\ call["O2"].target_backend = "local"
    /\ LiveLease(tasks["A"], now)

GuardedOps == {"mark_running", "heartbeat", "mark_done", "mark_failed"}

\* C2: a mark_running, heartbeat, mark_done or mark_failed call whose leased_by
\* differs from the row's current leased_by (NULL included) leaves the row as it was.
C2_OwnershipGuard ==
    [][ (last'.op \in GuardedOps /\ tasks[last'.id].leased_by # last'.by)
            => tasks'[last'.id] = tasks[last'.id] ]_vars

\* A signed callback carrying leased_by = O1 has run mark_done against a row that
\* is leased to O2, and nothing was updated.
C2_Witness ==
    /\ last.op = "mark_done" /\ last.by = "O1" /\ last.id = "A" /\ last.n = 0
    /\ tasks["A"].leased_by = "O2"
    /\ tasks["A"].status = "leased"
    /\ tasks["A"].attempts = 2

\* C3: once a row's status is done, failed or canceled, no call changes it.
C3_StickyTerminals ==
    [][ \A t \in DOMAIN tasks :
            tasks[t].status \in Terminal => tasks'[t].status = tasks[t].status ]_vars

\* C5: a row's attempts equals the number of its queued -> leased transitions;
\* lease_one bills a queued row once and does not bill the re-lease of an expired lease.
C5_AttemptAccounting == \A t \in DOMAIN tasks : tasks[t].attempts = q2l[t]

\* lease_one has just re-leased a row whose lease had expired; attempts stayed 1.
C5_Witness ==
    /\ last.op = "lease_one" /\ last.id = "A" /\ last.from = "leased" /\ last.n = 1
    /\ tasks["A"].attempts = 1
    /\ q2l["A"] = 1

\* C8: a row that is leased or running has a leaseholder.
C8_LeasedHasHolder ==
    \A t \in DOMAIN tasks :
        tasks[t].status \in {"leased", "running"} => tasks[t].leased_by # NullStr

\* A row the janitor requeued has been leased again and is running.
C8_Witness ==
    /\ tasks["A"].status = "running"
    /\ tasks["A"].leased_by = "O2"
    /\ tasks["A"].attempts = 2
    /\ tasks["A"].error = NullStr /\ tasks["A"].result = NullStr
    /\ last.op = "mark_running" /\ last.n = 1

\* C9: a queued, done, failed or canceled row has lease_expires_at NULL.
C9_LeaseExpiryNulled ==
    \A t \in DOMAIN tasks :
        tasks[t].status \in {"queued", "done", "failed", "canceled"}
            => tasks[t].lease_expires_at = Null

\* C12: mark_failed(retry=true) by the holder of a leased row gives a row with
\* the status, leased_by and lease_expires_at of the row as it was inserted
\* (queued, NULL, NULL); attempts stays as the lease billed it and error is the
\* error passed.
C12_RetryRoundTrip ==
    [][ \A p \in Procs, t \in DOMAIN tasks, e \in Errors :
            ( /\ last'.op = "mark_failed"
              /\ MarkFailed(p, t, e, TRUE)
              /\ tasks[t].status = "leased"
              /\ tasks[t].leased_by = p )
            => /\ tasks'[t].status = InitRows[t].status
               /\ tasks'[t].leased_by = InitRows[t].leased_by
               /\ tasks'[t].lease_expires_at = InitRows[t].lease_expires_at
               /\ tasks'[t].status = "queued"
               /\ tasks'[t].leased_by = NullStr
               /\ tasks'[t].lease_expires_at = Null
               /\ tasks'[t].attempts = tasks[t].attempts
               /\ tasks'[t].attempts = q2l[t]
               /\ tasks'[t].error = e ]_vars

\* The row was leased from its initial queued state and its holder has released
\* it with mark_failed(retry=true).
C12_Witness ==
    /\ last.op = "mark_failed" /\ last.retry /\ last.n = 1 /\ last.from = "leased"
    /\ tasks["A"].status = "queued"
    /\ tasks["A"].leased_by = NullStr
    /\ tasks["A"].attempts = 1
    /\ tasks["A"].error = "boom"
    /\ tasks["A"].started_at = Null /\ tasks["A"].finished_at = Null

C16_CanceledNeverLeased ==
    [][ \A p \in Procs :
            (pc[p] = "leasing" /\ pc'[p] = "idle" /\ call[p].cand # NoTask)
                => call[p].cand \notin canceled ]_vars

\* C19: heartbeat changes a row only when leased_by matches and the status is
\* leased or running; it then sets lease_expires_at to now + lease_seconds and
\* last_heartbeat_at to now, replaces in worker_meta the keys meta carries and
\* keeps the others, and changes no other field; repeating it at the same instant
\* gives the same row; a queued, done, failed or canceled row stays as it is.
C19_Heartbeat ==
    [][ \A p \in Procs, t \in DOMAIN tasks, ls \in LeaseSecsWide, m \in MetasWide :
          (last'.op = "heartbeat" /\ Heartbeat(p, t, ls, m)) =>
            LET r == tasks[t]
                r2 == tasks'[t]
            IN  IF r.leased_by = p /\ r.status \in {"leased", "running"}
                THEN /\ r2.lease_expires_at = now + ls
                     /\ r2.last_heartbeat_at = now
                     /\ \A k \in MetaKeys :
                            r2.worker_meta[k] = IF m[k] # NullStr THEN m[k]
                                                ELSE r.worker_meta[k]
                     /\ r2.status = r.status /\ r2.attempts = r.attempts
                     /\ r2.leased_by = r.leased_by
                     /\ [r2 EXCEPT !.lease_expires_at = r.lease_expires_at,
                                   !.last_heartbeat_at = r.last_heartbeat_at,
                                   !.worker_meta = r.worker_meta,
                                   !.worker_meta_null = r.worker_meta_null] = r
                     /\ HeartbeatRow(r2, p, ls, m, now) = r2
                ELSE r2 = r ]_vars

\* The holder's heartbeat with the executing document on a running row whose
\* worker_meta held the waiting document: stage replaced, squeue_state kept.
C19_Witness ==
    /\ last.op = "heartbeat" /\ last.by = "O1" /\ last.n = 1 /\ last.from = "running"
    /\ tasks["A"].status = "running" /\ tasks["A"].leased_by = "O1"
    /\ tasks["A"].worker_meta["stage"] = "executing"
    /\ tasks["A"].worker_meta["squeue_state"] = "RUNNING"
    /\ tasks["A"].lease_expires_at = now + LeaseSeconds + 1
    /\ tasks["A"].last_heartbeat_at = now
    /\ now > 1

\* C20: mark_failed(retry=false) by the row's leaseholder sets status failed, the
\* error passed, exit_code 1 and finished_at now, and leaves leased_by,
\* lease_expires_at and every other field as they were; mark_failed with either
\* retry value leaves a canceled row unchanged.
C20_MarkFailedFrame ==
    [][ \A p \in Procs, t \in DOMAIN tasks, e \in Errors, retry \in BOOLEAN :
          (last'.op = "mark_failed" /\ MarkFailed(p, t, e, retry)) =>
            LET r == tasks[t]
                r2 == tasks'[t]
            IN  /\ r.status = "canceled" => r2 = r
                /\ (~retry /\ r.leased_by = p /\ r.status # "canceled") =>
                      /\ r2.status = "failed"
                      /\ r2.error = e
                      /\ r2.exit_code = 1
                      /\ r2.finished_at = now
                      /\ r2.leased_by = r.leased_by
                      /\ r2.lease_expires_at = r.lease_expires_at
                      /\ [r2 EXCEPT !.status = r.status, !.error = r.error,
                                    !.exit_code = r.exit_code,
                                    !.finished_at = r.finished_at] = r ]_vars

\* The holder of a running row has failed it for good: the row keeps its holder
\* and its lease expiry.
C20_Witness ==
    /\ last.op = "mark_failed" /\ ~last.retry /\ last.n = 1 /\ last.from = "running"
    /\ last.by = "O1"
    /\ tasks["A"].status = "failed"
    /\ tasks["A"].leased_by = "O1"
    /\ tasks["A"].lease_expires_at # Null
    /\ tasks["A"].exit_code = 1
    /\ tasks["A"].finished_at = now
    /\ tasks["A"].error = "boom"

\* C21: requeue_stale changes exactly the leased rows whose lease has expired and
\* the running rows whose last heartbeat is older than the threshold: each becomes
\* queued with the lease metadata NULL (and backend, backend_job_id, started_at
\* NULL for a running row); every other row is unchanged; attempts never changes;
\* both updates take effect in the one step.
C21_JanitorFrame ==
    [][ \A s \in StaleSecsWide :
          (last'.op = "requeue_stale" /\ RequeueStale(s)) =>
            \A t \in DOMAIN tasks :
              LET r == tasks[t]
                  r2 == tasks'[t]
                  cleared == [ r EXCEPT !.status = "queued", !.leased_by = NullStr,
                                        !.leased_at = Null, !.lease_expires_at = Null,
                                        !.last_heartbeat_at = Null ]
              IN  /\ r2.attempts = r.attempts
                  /\ IF r.status = "leased" /\ r.lease_expires_at < now
                     THEN r2 = cleared
                     ELSE IF r.status = "running" /\ r.last_heartbeat_at < now - s
                     THEN r2 = [ cleared EXCEPT !.backend = NullStr,
                                                !.backend_job_id = NullStr,
                                                !.started_at = Null ]
                     ELSE r2 = r ]_vars

\* One pass has requeued both an expired leased row and a stale running row.
C21_Witness ==
    /\ last.op = "requeue_stale" /\ last.n = 2
    /\ tasks["A"].status = "queued" /\ tasks["A"].attempts = 1
    /\ tasks["A"].leased_by = NullStr /\ tasks["A"].lease_expires_at = Null
    /\ tasks["A"].backend = NullStr /\ tasks["A"].started_at = Null
    /\ tasks["A"].error = NullStr
    /\ tasks["B"].status = "queued" /\ tasks["B"].attempts = 1
    /\ tasks["B"].error = NullStr

\* C33: a queued row has no holder and no lease expiry.
C33_QueuedHasNoLease ==
    \A t \in DOMAIN tasks :
        tasks[t].status = "queued" =>
            tasks[t].leased_by = NullStr /\ tasks[t].lease_expires_at = Null

\* The janitor put a row in its first attempt back to queued.
C33_Witness ==
    /\ last.op = "requeue_stale" /\ last.n = 1
    /\ tasks["A"].status = "queued" /\ tasks["A"].attempts = 1
    /\ tasks["A"].leased_by = NullStr /\ tasks["A"].lease_expires_at = Null
    /\ tasks["A"].worker_meta_null

\* C34: a done row has exit_code 0, no error, no lease expiry and a result.
C34_DoneRowShape ==
    \A t \in DOMAIN tasks :
        tasks[t].status = "done" =>
            /\ tasks[t].exit_code = 0
            /\ tasks[t].error = NullStr
            /\ tasks[t].lease_expires_at = Null
            /\ tasks[t].result # NullStr

\* mark_done was applied to a row that mark_failed had failed with an error.
C34_Witness ==
    /\ last.op = "mark_done" /\ last.n = 1 /\ last.from = "failed"
    /\ tasks["A"].status = "done" /\ tasks["A"].exit_code = 0
    /\ tasks["A"].error = NullStr /\ tasks["A"].result = "r1"

\* C35: with one lease_seconds for every lease_one and heartbeat, a leased or
\* running row has lease_expires_at <= last_heartbeat_at + lease_seconds; and
\* with running_stale_seconds >= lease_seconds the janitor changes no row
\* whose lease expiry is still in the future.
C35_ExpiryWithinHeartbeat ==
    [][ \A t \in DOMAIN tasks :
          /\ tasks'[t].status \in {"leased", "running"} =>
                /\ tasks'[t].lease_expires_at # Null
                /\ tasks'[t].last_heartbeat_at # Null
                /\ tasks'[t].lease_expires_at <= tasks'[t].last_heartbeat_at + LeaseSeconds
          /\ (last'.op = "requeue_stale" /\ tasks'[t] # tasks[t] /\ RunningStaleSeconds >= LeaseSeconds)
                => ~(tasks[t].lease_expires_at # Null /\ tasks[t].lease_expires_at > now) ]_vars

\* mark_running came a clock unit after the lease: the heartbeat stamp moved,
\* the lease expiry did not.
C35_Witness ==
    /\ last.op = "mark_running" /\ last.n = 1
    /\ tasks["A"].status = "running"
    /\ tasks["A"].lease_expires_at < tasks["A"].last_heartbeat_at + LeaseSeconds

\* C40: only lease_one changes attempts, and only upwards; no call changes
\* max_attempts.
C40_AttemptsFrame ==
    [][ \A t \in DOMAIN tasks :
          /\ tasks'[t].max_attempts = tasks[t].max_attempts
          /\ tasks'[t].attempts >= tasks[t].attempts
          /\ tasks'[t].attempts # tasks[t].attempts => last'.op = "lease_one" ]_vars

\* The janitor requeued an expired lease of a row in its second attempt.
C40_Witness ==
    /\ last.op = "requeue_stale" /\ last.n = 1
    /\ tasks["A"].status = "queued" /\ tasks["A"].attempts = 2
    /\ tasks["A"].backend = NullStr

----------------------------------------------------------------------------
\* Properties of the lease scan.

\* The eligibility predicate as the specification words it.
Claimable(r, target_backend, at) ==
    /\ r.status = "queued" \/ (r.status = "leased" /\ r.lease_expires_at # Null
                                                   /\ r.lease_expires_at < at)
    /\ r.attempts < r.max_attempts
    /\ r.target_backend = target_backend

NoOtherLeaser(p) == \A q \in Procs \ {p} : pc[q] # "leasing"

\* C10: with no concurrent leaser lease_one returns a row iff one is eligible; the
\* row is an eligible one of highest priority, earliest created_at among those; it
\* becomes leased by the caller until now + lease_seconds; no other row changes,
\* and none at all when nothing is returned.
C10_LeaseOne ==
    [][ \A p \in Procs : NoOtherLeaser(p) =>
          /\ (pc[p] = "idle" /\ pc'[p] = "leasing") =>
                LET c == call'[p]
                    el == { t \in DOMAIN tasks :
                                Claimable(tasks[t], c.target_backend, now) }
                IN  /\ c.cand = NoTask <=> el = {}
                    /\ c.cand # NoTask =>
                         /\ c.cand \in el
                         /\ \A u \in el :
                              /\ tasks[u].priority <= tasks[c.cand].priority
                              /\ tasks[u].priority = tasks[c.cand].priority
                                    => tasks[c.cand].created_at <= tasks[u].created_at
          /\ (pc[p] = "leasing" /\ pc'[p] = "returned") =>
                LET c == call[p]
                IN  IF c.cand = NoTask
                    THEN tasks' = tasks /\ task'[p] = NoTaskObj
                    ELSE /\ task'[p].id = c.cand
                         /\ tasks'[c.cand].status = "leased"
                         /\ tasks'[c.cand].leased_by = p
                         /\ tasks'[c.cand].lease_expires_at = c.at + c.lease_seconds
                         /\ \A u \in DOMAIN tasks \ {c.cand} : tasks'[u] = tasks[u]
      ]_vars

\* lease_one has returned B, which ties with the still queued A on priority and
\* was created earlier.
C10_Witness ==
    /\ last.op = "lease_one" /\ last.id = "B" /\ last.n = 1
    /\ tasks["B"].status = "leased" /\ tasks["B"].leased_by = last.by
    /\ tasks["A"].status = "queued" /\ tasks["A"].attempts < tasks["A"].max_attempts
    /\ tasks["A"].target_backend = tasks["B"].target_backend
    /\ tasks["A"].priority = tasks["B"].priority
    /\ tasks["B"].created_at < tasks["A"].created_at
    /\ task[last.by].id = "B"
    /\ \A p \in Procs \ {last.by} : pc[p] = "idle"

\* C11: whatever the interleaving, the row a lease_one call locks and then claims
\* has the target_backend the call asked for: a named pool claims only rows of
\* that pool, a NULL request only rows whose target_backend is NULL.
C11_BackendPartition ==
    [][ \A p \in Procs :
          /\ (pc[p] = "idle" /\ pc'[p] = "leasing" /\ call'[p].cand # NoTask)
                => tasks[call'[p].cand].target_backend = call'[p].target_backend
          /\ (pc[p] = "leasing" /\ pc'[p] = "returned" /\ call[p].cand # NoTask)
                => /\ tasks'[call[p].cand].target_backend = call[p].target_backend
                   /\ \A u \in DOMAIN tasks :
                        tasks[u].target_backend # call[p].target_backend
                            => tasks'[u] = tasks[u]
      ]_vars

\* A lease_one for the slurm pool has returned nothing and left the queued local
\* row A alone, and a lease_one asking for NULL has claimed B, whose target is NULL.
C11_Witness ==
    /\ last.op = "lease_one" /\ last.id = "B" /\ last.n = 1
    /\ tasks["B"].target_backend = NullStr /\ tasks["B"].leased_by = last.by
    /\ tasks["A"].status = "queued" /\ tasks["A"].target_backend = "local"
    /\ tasks["A"].attempts < tasks["A"].max_attempts
    /\ tasks["A"].priority > tasks["B"].priority
    /\ \E q \in Procs \ {last.by} : pc[q] = "returned" /\ task[q].id = NoTask

----------------------------------------------------------------------------
\* Properties of the callback ingest.

\* C13: a POST whose x-task-sig is missing or is not the HMAC of the body under
\* the secret, or that arrives while the secret is empty, is answered 401 and
\* writes nothing to the store.
C13_SignatureRequired ==
    [][ (last'.op = "task_result" /\ ~last'.auth)
            => (last'.code = 401 /\ tasks' = tasks) ]_vars

\* C14: a correctly signed POST with ok=true and the row's leased_by makes the row
\* done with the posted result, and the same POST arriving again, when the row is
\* already done with that result, leaves the row as it is.
C14_CallbackIdempotent ==
    [][ \A t \in DOMAIN tasks :
          ( /\ last'.op = "task_result" /\ last'.code = 200 /\ last'.id = t
            /\ tasks[t].leased_by = last'.by
            /\ tasks'[t].status = "done" )
          => /\ tasks'[t].result \in Results \cup {"ok_true"}
             /\ (tasks[t].status = "done" /\ tasks[t].result = tasks'[t].result)
                    => tasks'[t] = tasks[t] ]_vars

\* C32 as stated: a correctly signed ok=false callback whose leased_by matches
\* makes the row failed.
C32_FailureCallbackFails ==
    [][ \A t \in DOMAIN tasks :
          ( /\ last'.op = "task_result" /\ last'.code = 200 /\ last'.id = t
            /\ last'.answer = "failed"
            /\ tasks[t].leased_by = last'.by )
          => tasks'[t].status = "failed" ]_vars

\* C32, amended: a correctly signed ok=false callback whose leased_by matches a
\* row that is not canceled makes the row failed with the posted error or
\* "unknown error", whatever attempts is, and leaves a canceled row as it is; no
\* callback returns a row to queued; an ok=true callback whose leased_by matches
\* makes the row done with the posted result, or {ok:true} when the result is
\* absent or empty.
C32_CallbackApplies ==
    [][ \A t \in DOMAIN tasks :
          (last'.op = "task_result" /\ last'.code = 200 /\ last'.id = t) =>
              /\ tasks'[t].status = "queued" => tasks[t].status = "queued"
              /\ (last'.answer = "failed" /\ tasks[t].leased_by = last'.by) =>
                    IF tasks[t].status = "canceled"
                    THEN tasks'[t] = tasks[t]
                    ELSE /\ tasks'[t].status = "failed"
                         /\ tasks'[t].error \in Errors \cup {"unknown error"}
                         /\ tasks'[t].exit_code = 1
                         /\ tasks'[t].attempts = tasks[t].attempts
                         /\ tasks'[t].leased_by = tasks[t].leased_by
              /\ (last'.answer = "done" /\ tasks[t].leased_by = last'.by) =>
                    /\ tasks'[t].status = "done"
                    /\ tasks'[t].result \in Results \cup {"ok_true"} ]_vars

\* A running row with an attempt left was failed by a callback.
C32_Witness ==
    /\ last.op = "task_result" /\ last.code = 200 /\ last.answer = "failed"
    /\ last.from = "running" /\ last.n = 1
    /\ tasks["A"].status = "failed"
    /\ tasks["A"].attempts < tasks["A"].max_attempts
    /\ tasks["A"].leased_by = last.by

\* C38: a 200 answer names the status the addressed row has when the call
\* returns.
C38_AnswerAgreesWithStore ==
    [][ (last'.op = "task_result" /\ last'.code = 200)
            => tasks'[last'.id].status = last'.answer ]_vars

----------------------------------------------------------------------------
\* Properties of the orchestrators.

\* C4: attempts never exceeds max_attempts, and whenever an orchestrator's
\* mark_failed(retry=true) puts a row back in the queue the row has attempts left.
C4_AttemptsBounded ==
    /\ \A t \in DOMAIN tasks : tasks[t].attempts <= tasks[t].max_attempts
    /\ (last.op = "mark_failed" /\ last.retry /\ last.n = 1)
            => tasks[last.id].attempts < tasks[last.id].max_attempts

\* An execution failed on the first of two attempts and the row was requeued.
C4_Witness ==
    /\ last.op = "mark_failed" /\ last.retry /\ last.n = 1 /\ last.from = "running"
    /\ tasks["A"].status = "queued"
    /\ tasks["A"].attempts = 1

\* lease_one would claim the row for the pool the row targets.
Leasable(r, at) == Eligible(r, r.target_backend, at)

Max(a, b) == IF a >= b THEN a ELSE b

\* The holder of the row's lease has stopped for good.
HolderStopped(r) == r.leased_by \in Procs /\ pc[r.leased_by] = "crashed"

\* C6: a janitor pass that runs more than max(lease_seconds, running_stale_seconds)
\* after the last heartbeat of a row whose holder has stopped leaves the row leasable.
C6_JanitorRecovery ==
    [][ \A t \in DOMAIN tasks :
            ( /\ \E s \in StaleSecs : RequeueStale(s)
              /\ tasks[t].status \in {"leased", "running"}
              /\ HolderStopped(tasks[t])
              /\ now - tasks[t].last_heartbeat_at > Max(LeaseSeconds, RunningStaleSeconds) )
            => Leasable(tasks'[t], now) ]_vars

\* C17: a row canceled while an orchestrator holds it is still canceled when that
\* orchestrator has finished with the task (mark_done after a successful
\* execution, mark_failed after a failed one) and when the callback ingest has
\* applied a posted result.
C17_CancelStickyForHolder ==
    [][ \A t \in DOMAIN tasks :
          ( /\ tasks[t].status = "canceled"
            /\ \/ \E p \in Procs : /\ task[p].id = t
                                    /\ pc[p] \in {"mark_done", "except"}
                                    /\ pc'[p] = "idle"
               \/ last'.op = "task_result" /\ last'.id = t /\ last'.code = 200 )
          => tasks'[t].status = "canceled" ]_vars

\* C18: an orchestrator whose mark_running updated no row abandons the task: it
\* goes back to polling, without the heartbeat, the execution and the mark_done
\* or mark_failed that follow mark_running.
C18_LostOwnershipAbandon ==
    [][ \A p \in Procs :
          ( /\ pc[p] = "mark_running" /\ pc'[p] \notin {"mark_running", "crashed"}
            /\ last'.op = "mark_running" /\ last'.by = p /\ last'.n = 0 )
          => pc'[p] = "idle" ]_vars

\* C22: the janitor never requeues a row that a live orchestrator is executing,
\* however long the execution takes.
C22_JanitorSparesLiveHolder ==
    [][ \A t \in DOMAIN tasks, p \in Procs :
          ( /\ last'.op = "requeue_stale"
            /\ pc[p] = "execute" /\ task[p].id = t
            /\ tasks[t].status = "running" /\ tasks[t].leased_by = p )
          => tasks'[t] = tasks[t] ]_vars

\* C23 as stated: when O1 has died holding the leased task and O2 has completed
\* it, the row is done with attempts = 2.
C23_CrashRecoveryBilledTwice ==
    (pc["O1"] = "crashed" /\ tasks["A"].status = "done") => tasks["A"].attempts = 2

\* C23 amended: when O1 has died holding the leased task, lease_one returns the
\* task to O2 once the lease has expired, and when O2 has completed it the row is
\* done with attempts = 1: the re-lease of the expired lease is not billed.
C23_CrashRecovery ==
    /\ ( /\ pc["O1"] = "crashed" /\ pc["O2"] = "idle"
         /\ tasks["A"].status = "leased" /\ tasks["A"].leased_by = "O1"
         /\ now >= tasks["A"].lease_expires_at + 1 )
       => Candidates("local", now) = {"A"}
    /\ (pc["O1"] = "crashed" /\ tasks["A"].status = "done")
       => /\ tasks["A"].attempts = 1
          /\ tasks["A"].leased_by = "O2"
          /\ q2l["A"] = 1

\* O1 leased the task and died; O2 leased it after the expiry and completed it.
C23_Witness ==
    /\ pc["O1"] = "crashed" /\ task["O1"].id = "A" /\ task["O1"].attempts = 1
    /\ pc["O2"] = "idle" /\ task["O2"].id = "A"
    /\ tasks["A"].status = "done" /\ tasks["A"].leased_by = "O2"
    /\ tasks["A"].attempts = 1
    /\ last.op = "mark_done" /\ last.n = 1

\* C24: the orchestrator's mark_failed after a raised execution carries
\* retry = (attempts < max_attempts): the row goes back to queued while attempts
\* < max_attempts and becomes failed when attempts = max_attempts; a queued row
\* always has an attempt left, and a failed row has attempts = max_attempts, an
\* error, and was leased exactly max_attempts times.
C24_RetryBudget ==
    /\ (last.op = "mark_failed" /\ last.n = 1) =>
          LET r == tasks[last.id]
          IN  /\ last.retry <=> r.attempts < r.max_attempts
              /\ r.status = "queued" <=> r.attempts < r.max_attempts
              /\ r.status = "failed" <=> r.attempts = r.max_attempts
    /\ \A t \in DOMAIN tasks :
          /\ tasks[t].status = "queued" => tasks[t].attempts < tasks[t].max_attempts
          /\ tasks[t].status = "failed" =>
                /\ tasks[t].attempts = tasks[t].max_attempts
                /\ tasks[t].error # NullStr
                /\ q2l[t] = tasks[t].max_attempts

\* A task with max_attempts = 3 has failed for good on its third lease.
C24_Witness ==
    /\ last.op = "mark_failed" /\ ~last.retry /\ last.n = 1
    /\ tasks["A"].status = "failed"
    /\ tasks["A"].max_attempts = 3 /\ tasks["A"].attempts = 3 /\ q2l["A"] = 3
    /\ tasks["A"].error = "boom"
    /\ pc["O1"] = "idle"

\* C25: with one orchestrator and executions that return, the task's status
\* changes only queued -> leased -> running -> done, and the done row has
\* attempts = 1, exit_code = 0, a result and lease_expires_at NULL.
C25_HappyPath ==
    [][ \A t \in DOMAIN tasks :
          /\ tasks'[t].status # tasks[t].status =>
                <<tasks[t].status, tasks'[t].status>> \in
                    { <<"queued", "leased">>, <<"leased", "running">>, <<"running", "done">> }
          /\ tasks'[t].status = "done" =>
                /\ tasks'[t].attempts = 1
                /\ tasks'[t].exit_code = 0
                /\ tasks'[t].result = "r1"
                /\ tasks'[t].error = NullStr
                /\ tasks'[t].lease_expires_at = Null ]_vars

\* The task with max_attempts = 3 is done and the orchestrator polls again.
C25_Witness ==
    /\ tasks["A"].status = "done" /\ tasks["A"].max_attempts = 3
    /\ tasks["A"].attempts = 1 /\ tasks["A"].exit_code = 0
    /\ tasks["A"].lease_expires_at = Null
    /\ tasks["A"].started_at # Null
    /\ pc["O1"] = "idle" /\ last.op = "lease_one" /\ last.id = NoTask

\* C26: a task whose task_type the local backend does not support is released
\* with mark_failed(retry=true): its row is never running and never failed.
C26_UnsupportedReleased ==
    \A t \in DOMAIN tasks :
        tasks[t].task_type \notin SupportedLocal
            => /\ tasks[t].status \notin {"running", "failed"}
               /\ (last.op = "mark_failed" /\ last.id = t) => last.retry

\* C28: when executions never raise, a transient error of a store call leaves
\* the task leased to its orchestrator with its status unchanged: the
\* orchestrator's handler changes no row (no requeue, no failure).
C28_StoreErrorKeepsLease ==
    last.op = "mark_failed" => last.n = 0

\* C27: between the callback ingest and the slurm orchestrator's mark_failed
\* calls, the first finalization stands: no mark_failed of the orchestrator
\* changes the status of a row the callback marked done, and no callback changes
\* the status of a row the orchestrator marked failed.
C27_FirstFinalizationWins ==
    [][ \A t \in DOMAIN tasks :
          /\ (tasks[t].status = "done" /\ last'.op = "mark_failed")
                => tasks'[t].status = "done"
          /\ ( /\ tasks[t].status = "failed" /\ tasks[t].error \in {"no_callback", "raised"}
               /\ last'.op = "task_result" )
                => tasks'[t].status = "failed" ]_vars

\* C29: an iteration of the reconciliation loop starts by reading the row's
\* status and changes nothing by it; on done, failed, canceled or queued the
\* orchestrator is back at lease_one at once, otherwise it goes on to the job
\* state; and while it is back at lease_one none of its store calls changes a row.
C29_ReconciliationExit ==
    [][ /\ \A p \in Procs :
            (pc[p] = "poll" /\ last'.op = "task_status") =>
                LET db_status == tasks[task[p].id].status
                IN  /\ tasks' = tasks
                    /\ last'.from = db_status
                    /\ db_status \in {"done", "failed", "canceled", "queued"} => pc'[p] = "idle"
                    /\ db_status \in {"leased", "running"} => pc'[p] = "job_state"
        /\ ((\A p \in Procs : pc[p] = "idle") /\ tasks' # tasks) =>
                last'.op \in {"task_result", "cancel", "requeue_stale"} ]_vars

\* The loop has ended on a row that the janitor put back to queued.
C29_Witness ==
    /\ last.op = "task_status" /\ last.by = "O1" /\ last.from = "queued"
    /\ tasks["A"].status = "queued" /\ tasks["A"].leased_by = NullStr
    /\ pc["O1"] = "idle"
    /\ jobs = {<<"A", "O1">>}

\* C30: the loop is entered with no grace timer; a poll that sees the job
\* FINISHED starts the timer if none runs and keeps it otherwise; a poll that
\* sees another state clears it; and the orchestrator goes to
\* mark_failed(retry=false) exactly from a FINISHED poll whose timer was started
\* by an earlier poll at least finished_grace_seconds ago.
C30_GraceTimer ==
    [][ \A p \in Procs :
          /\ (pc[p] = "submitted" /\ pc'[p] = "poll") => finished_seen_at'[p] = Null
          /\ (pc[p] = "job_state" /\ pc'[p] \in {"poll", "no_callback"}) =>
                LET seen == finished_seen_at[p]
                    st == state'[p]
                IN  /\ (st = "FINISHED" /\ seen = Null) => finished_seen_at'[p] = now
                    /\ (st = "FINISHED" /\ seen # Null) => finished_seen_at'[p] = seen
                    /\ st # "FINISHED" => finished_seen_at'[p] = Null
                    /\ pc'[p] = "no_callback" <=>
                          (st = "FINISHED" /\ seen # Null /\ now - seen >= FinishedGraceSeconds)
          /\ pc'[p] = "no_callback" =>
                /\ state'[p] = "FINISHED"
                /\ finished_seen_at'[p] # Null
                /\ now' - finished_seen_at'[p] >= FinishedGraceSeconds
          /\ (pc[p] = "no_callback" /\ pc'[p] # "no_callback") =>
                /\ last'.op = "mark_failed" /\ ~last'.retry /\ last'.by = p
                /\ pc'[p] = "idle" ]_vars

\* The job was gone from squeue for the grace period and the row was failed.
C30_Witness ==
    /\ last.op = "mark_failed" /\ ~last.retry /\ last.n = 1 /\ last.by = "O1"
    /\ tasks["A"].status = "failed" /\ tasks["A"].error = "no_callback"
    /\ state["O1"] = "FINISHED"
    /\ finished_seen_at["O1"] # Null
    /\ now - finished_seen_at["O1"] >= FinishedGraceSeconds
    /\ pc["O1"] = "idle"

\* C31: a process leaves the outer loop only in demo mode, from an empty poll,
\* when its idle timer has run for idle_exit_seconds; the timer is started by the
\* first empty poll, kept by the following ones, cleared by every successful
\* lease, and never runs while a task is being processed or in real mode.
C31_IdleExit ==
    [][ \A p \in Procs :
          /\ (pc'[p] = "exited" /\ pc[p] # "exited") =>
                /\ mode[p] = "demo" /\ pc[p] = "no_task"
                /\ idle_start[p] # Null
                /\ now - idle_start[p] >= IdleExitSeconds
          /\ (pc[p] = "no_task" /\ pc'[p] # "no_task" /\ mode[p] = "demo") =>
                /\ idle_start[p] = Null => (idle_start'[p] = now /\ pc'[p] = "idle")
                /\ idle_start[p] # Null =>
                      /\ idle_start'[p] = idle_start[p]
                      /\ pc'[p] = "exited" <=> now - idle_start[p] >= IdleExitSeconds
          /\ (pc[p] = "got_task" /\ pc'[p] # "got_task") => idle_start'[p] = Null
          /\ pc'[p] \in {"mark_running", "heartbeat", "execute", "mark_done", "except"}
                => idle_start'[p] = Null
          /\ mode[p] = "real" => (pc'[p] # "exited" /\ idle_start'[p] = Null)
          /\ pc[p] = "exited" => pc'[p] = "exited" ]_vars

\* A demo-mode orchestrator has finished the task and then idled out.
C31_Witness ==
    /\ pc["O1"] = "exited" /\ mode["O1"] = "demo"
    /\ tasks["A"].status = "done" /\ tasks["A"].leased_by = "O1"
    /\ idle_start["O1"] # Null /\ now - idle_start["O1"] >= IdleExitSeconds
    /\ mode["O2"] = "real" /\ pc["O2"] # "exited"

C36_StaleCallbackRejected ==
    [][ \A t \in DOMAIN tasks :
          ( /\ last'.op = "task_result" /\ last'.code = 200 /\ last'.id = t
            /\ pc["O1"] = "submit" /\ task["O1"].id = t
            /\ tasks[t].status = "leased" /\ tasks[t].leased_by = "O1" )
          => tasks'[t] = tasks[t] ]_vars

\* C37: the job is submitted before mark_running, so its callback may find the
\* row still leased: then the callback finalizes the row; and on a row already
\* done or failed the orchestrator's mark_running and first heartbeat change
\* nothing, and its first poll that reads that status ends the loop.
C37_CallbackBeforeMarkRunning ==
    [][ \A p \in Procs :
          LET row == tasks[task[p].id]
          IN  /\ ( /\ pc[p] = "mark_running" /\ <<task[p].id, p>> \in jobs
                   /\ last'.op = "task_result" /\ last'.code = 200
                   /\ last'.id = task[p].id /\ last'.by = p
                   /\ row.status = "leased" /\ row.leased_by = p )
                  => tasks'[task[p].id].status = last'.answer
              /\ (pc[p] = "mark_running" /\ pc'[p] = "submitted" /\ row.status \in {"done", "failed"})
                  => (tasks' = tasks /\ last'.op = "mark_running" /\ last'.n = 0)
              /\ (pc[p] = "submitted" /\ pc'[p] = "poll" /\ row.status \in {"done", "failed"})
                  => (tasks' = tasks /\ last'.op = "heartbeat" /\ last'.n = 0)
              /\ (pc[p] = "poll" /\ last'.op = "task_status" /\ row.status \in {"done", "failed"})
                  => (tasks' = tasks /\ pc'[p] = "idle") ]_vars

\* The callback made the leased row done before mark_running, which then
\* changed nothing: the row is done without ever having been running, and the
\* orchestrator has left the loop on a poll that read done.
C37_Witness ==
    /\ last.op = "task_status" /\ last.by = "O1" /\ last.from = "done"
    /\ tasks["A"].status = "done" /\ tasks["A"].leased_by = "O1"
    /\ tasks["A"].started_at = Null /\ tasks["A"].backend = NullStr
    /\ tasks["A"].attempts = 1
    /\ pc["O1"] = "idle"

\* The status graph, by the call that makes the change.
GraphEdge(from, to, op) ==
    \/ <<from, to>> \in { <<"queued", "leased">>, <<"leased", "running">>,
                          <<"running", "done">>, <<"running", "failed">>,
                          <<"queued", "canceled">>, <<"leased", "canceled">>,
                          <<"running", "canceled">> }
    \/ /\ to = "queued"
       /\ from \in {"leased", "running"}
       /\ op \in {"mark_failed", "requeue_stale"}

\* C7: every status change is an edge of the graph.
C7_StatusGraph ==
    [][ \A t \in DOMAIN tasks :
            tasks'[t].status # tasks[t].status
                => GraphEdge(tasks[t].status, tasks'[t].status, last'.op) ]_vars

====
